---- MODULE Spec2Model ----
(***************************************************************************)
(* Model of the multi-session WhatsApp pairing server (src/server.js):    *)
(* the two registry maps, the asynchronous createWhatsAppConnection, the  *)
(* connection.update handler with its suspension points, the reconnect    *)
(* timers, the HTTP routes and the socket.io observers.                    *)
(*                                                                         *)
(* Three specifications share the session lifecycle: Spec adds the         *)
(* creation requests (the largest state space), SpecPair the requests by   *)
(* pairing code, SpecObs the socket.io clients.                            *)
(***************************************************************************)
EXTENDS Integers, Sequences, FiniteSets, TLC

(* ------------------------------ bounds --------------------------------- *)
\* number of createWhatsAppConnection invocations explored
MaxCalls == 3
\* number of connection.update events explored, over all sockets
MaxEvents == 2
\* largest value of Date.now() explored
MaxClock == 1
\* number of socket.io clients explored
MaxObservers == 1
\* number of /api/pair-with-code requests suspended at once
MaxPending == 1
\* the single-connection server: sockets made, connection.update events
\* emitted and /api/restart requests served
MaxHandles == 3
MaxBotEvents == 2
MaxRestarts == 2

(* ------------------------- JavaScript values --------------------------- *)
Null == "null"
Undefined == "undefined"

\* DisconnectReason.loggedOut
LoggedOut == 401

\* the loop bound of generatePairingCode
CodeLen == 8

\* const chars = 'ABCDEFGHIJKLMNOPQRSTUVWXYZ0123456789'
Chars ==
    << "A","B","C","D","E","F","G","H","I","J","K","L","M",
       "N","O","P","Q","R","S","T","U","V","W","X","Y","Z",
       "0","1","2","3","4","5","6","7","8","9" >>

Digits == {"0","1","2","3","4","5","6","7","8","9"}

\* The values Math.floor(Math.random() * chars.length) takes in the eight
\* iterations of one generatePairingCode call: index i is the i-th draw.
RandStreams ==
    { [i \in 0..(CodeLen - 1) |-> 0],
      [i \in 0..(CodeLen - 1) |-> (7 * i + 30) % Len(Chars)] }

RECURSIVE CodeLoop(_, _, _)
CodeLoop(rnd, i, code) ==
    IF i < CodeLen
    THEN CodeLoop(rnd, i + 1, code \o << Chars[rnd[i] + 1] >>)
    ELSE code

\* generatePairingCode, for one stream of random draws
generatePairingCode(rnd) == CodeLoop(rnd, 0, << >>)

\* `IAN-TECH-${Date.now()}`
GenId(t) == "IAN-TECH-" \o ToString(t)

(* ------------------------------ Map ------------------------------------ *)
\* A JavaScript Map: the sequence of its entries in insertion order.
MapHas(m, k) == \E i \in 1..Len(m) : m[i].key = k

MapGet(m, k) ==
    IF MapHas(m, k)
    THEN (CHOOSE e \in { m[i] : i \in 1..Len(m) } : e.key = k).val
    ELSE 0

MapSet(m, k, v) ==
    IF MapHas(m, k)
    THEN [i \in 1..Len(m) |-> IF m[i].key = k THEN [key |-> k, val |-> v] ELSE m[i]]
    ELSE Append(m, [key |-> k, val |-> v])


(* ------------------------------ state ---------------------------------- *)
VARIABLES
    started,         \* the server.listen callback has run
    now,             \* Date.now()
    calls,           \* invocations of createWhatsAppConnection: [arg, pc, rec]
    records,         \* heap of sessionData objects, addressed by index
    activeSessions,  \* Map: key -> sessionData reference
    pairingCodes,    \* Map: pairing code -> sessionData reference
    handlers,        \* suspended connection.update handlers: [rec, u, pc]
    timers,          \* pending setTimeout(..., 5000) callbacks, oldest first
    nEvents,         \* number of connection.update events emitted so far
    connected,       \* socket.io clients currently connected
    inbox,           \* the types of the messages each client has received, in order
    emitted,         \* the messages the last step delivered: [to, msg]
    pendingSends,    \* /api/pair-with-code requests suspended on sendMessage
    resp,            \* the HTTP request the last step served, and its response
    sent,            \* the socket.sendMessage call the last step made
    \* the single-connection server (src/unnamed/part_000)
    listening,       \* its server.listen callback has run
    sock,            \* let sock: the handle it refers to, 0 while null
    qr,              \* let qr
    status,          \* let status
    isConnecting,    \* let isConnecting
    handles,         \* the sockets made so far: "live", "ended" or "closed"
    connects,        \* connectToWhatsApp calls suspended on an await
    retries,         \* pending setTimeout(connectToWhatsApp, 5000 | 10000)
    restarts,        \* pending 2000 ms timers of /api/restart
    nRestarts,       \* /api/restart requests served so far
    nBotEvents,      \* connection.update events its sockets emitted so far
    sendResp         \* the answer to the last /api/send request: [http, error]

\* the state of the multi-session server and of the single-connection server
multi ==
    << started, now, calls, records, activeSessions, pairingCodes, handlers,
       timers, nEvents, connected, inbox, emitted, pendingSends, resp, sent >>

single ==
    << listening, sock, qr, status, isConnecting, handles, connects, retries,
       restarts, nRestarts, nBotEvents, sendResp >>

vars == << multi, single >>

Observers == 1..MaxObservers

\* session ids a caller supplies in req.body.sessionId / data.sessionId;
\* the empty string is the absent (falsy) id
SuppliedIds == { "", "A" }

\* sock.user as the handler finds it: absent, or a user with an id
NoUser == [present |-> FALSE, id |-> << >>, name |-> Undefined]

SockUsers ==
    { NoUser,
      [present |-> TRUE, id |-> << "2","5","4","7",":","3","@","s" >>, name |-> Undefined] }

\* connection.update events: { connection, lastDisconnect, qr }, with the
\* value of sock.user at the time the handler runs.  statusCode 0 stands for
\* an update without lastDisconnect, 515 for a reason other than loggedOut.
Updates ==
    { [qr |-> "qr1", connection |-> Undefined, statusCode |-> 0, user |-> NoUser] }
    \cup { [qr |-> Null, connection |-> "open", statusCode |-> 0, user |-> su] : su \in SockUsers }
    \cup { [qr |-> Null, connection |-> "close", statusCode |-> sc, user |-> NoUser] :
             sc \in { 0, LoggedOut, 515 } }

(* ------------------------- socket.io messages -------------------------- *)
\* sessionData.user while it is null
NoSessionUser == [id |-> << >>, name |-> Null, phone |-> << >>]

\* a pairingCode property that is absent from a message or a response
UndefinedCode == << >>

Msg(type, sessionId, statusNow, pairingCode, user, qrCode, sessions) ==
    [ type |-> type, sessionId |-> sessionId, status |-> statusNow,
      pairingCode |-> pairingCode, user |-> user, qrCode |-> qrCode,
      sessions |-> sessions ]

\* io.emit(...): delivered to every client connected at that moment
Emit(st, msg) ==
    IF connected = {}
    THEN st
    ELSE [st EXCEPT
             !.inbox = [o \in Observers |->
                          IF o \in connected THEN Append(@[o], msg.type) ELSE @[o]],
             !.emitted = Append(@, [to |-> connected, msg |-> msg])]

\* the summary built from one session in io.on('connection')
Summary(s) ==
    [ id |-> s.id, pairingCode |-> s.pairingCode, status |-> s.status,
      user |-> s.user, qrAvailable |-> (s.qr # Null) ]

\* a wrong snapshot: the sessions that have no socket yet are left out
SessionSummaries_LiveOnly(recs, m) ==
    LET HasSocket(e) == recs[e.val].socket # 0
        live == SelectSeq(m, HasSocket)
    IN [i \in 1..Len(live) |-> Summary(recs[live[i].val])]

\* Array.from(activeSessions.values()).map(...)
SessionSummaries(recs, m) ==
    [i \in 1..Len(m) |-> Summary(recs[m[i].val])]

\* qrcode.toDataURL(qr)
toDataURL(text) == "data:image/png;" \o text

(* ------------------------------ outputs -------------------------------- *)
Response(op, sessionId, code, phone, http, error, rSessionId, rPairingCode, rStatus) ==
    [ op |-> op, sessionId |-> sessionId, code |-> code, phone |-> phone,
      http |-> http, error |-> error, rSessionId |-> rSessionId,
      rPairingCode |-> rPairingCode, rStatus |-> rStatus, image |-> Undefined ]

\* no request served; http 0 is a request whose response is not yet written
NoResp == Response("none", "", << >>, << >>, 0, "", Undefined, UndefinedCode, Undefined)

NoSend == [socket |-> 0, jid |-> << >>, sessionId |-> "", code |-> << >>]

\* a step that serves no request and sends nothing
NoHttp == resp' = NoResp /\ sent' = NoSend

\* a step that serves no request, sends nothing and emits nothing
Quiet == NoHttp /\ emitted' = << >>

(* ----------------- createWhatsAppConnection (async) -------------------- *)
\* sessionId is falsy (absent, null or the empty string)
Falsy(sessionId) == sessionId = ""

\* The call runs up to `await useMultiFileAuthState(authFolder)` and returns
\* a pending promise.
StartCall(cs, sessionId) ==
    Append(cs, [arg |-> sessionId, pc |-> "loadAuth", rec |-> 0])

\* const sessionData = { id: sessionId || `IAN-TECH-${Date.now()}`, ... }
NewSessionData(sessionId, pairingCode, t) ==
    [ id |-> IF Falsy(sessionId) THEN GenId(t) ELSE sessionId,
      pairingCode |-> pairingCode,
      qr |-> Null,
      status |-> "initializing",
      socket |-> 0,
      user |-> NoSessionUser,
      qrImage |-> Undefined ]

\* activeSessions.set(sessionId || 'default', sessionData)
SessionKey(sessionId) == IF Falsy(sessionId) THEN "default" ELSE sessionId

\* useMultiFileAuthState settles.  Fulfilled: the pairing code is generated,
\* the record is built and stored in both maps, and the call suspends on
\* `await fetchLatestBaileysVersion()`.  Rejected: the promise of the call
\* rejects.
LoadAuth(c, ok, rnd) ==
    /\ calls[c].pc = "loadAuth"
    /\ IF ok
       THEN LET pairingCode == generatePairingCode(rnd)
                sessionData == NewSessionData(calls[c].arg, pairingCode, now)
                ref == Len(records) + 1
            IN /\ records' = Append(records, sessionData)
               /\ activeSessions' = MapSet(activeSessions, SessionKey(calls[c].arg), ref)
               /\ pairingCodes' = MapSet(pairingCodes, pairingCode, ref)
               /\ calls' = [calls EXCEPT ![c].pc = "fetchVersion", ![c].rec = ref]
       ELSE /\ calls' = [calls EXCEPT ![c].pc = "rejected"]
            /\ UNCHANGED << records, activeSessions, pairingCodes >>
    /\ Quiet
    /\ UNCHANGED << single, started, now, handlers, timers, connected, inbox, pendingSends, nEvents >>

\* fetchLatestBaileysVersion settles.  Fulfilled: the socket is made, stored
\* in sessionData.socket and the connection.update handler is registered.
FetchVersion(c, ok) ==
    /\ calls[c].pc = "fetchVersion"
    /\ IF ok
       THEN /\ records' = [records EXCEPT ![calls[c].rec].socket = calls[c].rec]
            /\ calls' = [calls EXCEPT ![c].pc = "done"]
       ELSE /\ calls' = [calls EXCEPT ![c].pc = "rejected"]
            /\ UNCHANGED records
    /\ Quiet
    /\ UNCHANGED << single, started, now, activeSessions, pairingCodes, handlers, timers,
                    connected, inbox, pendingSends, nEvents >>

(* -------------------- connection.update handler ------------------------ *)
\* str.split(':')[0]
RECURSIVE SplitHead(_)
SplitHead(str) ==
    IF str = << >> \/ Head(str) = ":"
    THEN << >>
    ELSE << Head(str) >> \o SplitHead(Tail(str))

IsDigit(ch) == ch \in Digits

\* str.replace(/[^0-9]/g, '') and str.replace(/\D/g, '')
OnlyDigits(str) == SelectSeq(str, IsDigit)

\* { id: sock.user.id, name: sock.user.name || 'Unknown', phone: ... }
SessionUser(sockUser) ==
    [ id |-> sockUser.id,
      name |-> IF sockUser.name = Undefined THEN "Unknown" ELSE sockUser.name,
      phone |-> OnlyDigits(SplitHead(sockUser.id)) ]

\* The handler works on the session record, the clients' inboxes, the timers
\* and the suspended handlers: st = [records, inbox, emitted, timers, handlers].

\* a wrong close branch: the timer is set whatever the reason of the close
ClosePart_AlwaysReconnect(st, r, u) ==
    IF u.connection = "close"
    THEN LET recs == [st.records EXCEPT ![r].status = "disconnected"]
             msg == Msg("session_update", recs[r].id, recs[r].status,
                        UndefinedCode, NoSessionUser, Undefined, << >>)
             st1 == Emit([st EXCEPT !.records = recs], msg)
         IN [st1 EXCEPT !.timers = Append(@, r)]
    ELSE st

\* if (connection === 'close') { ... }
ClosePart(st, r, u) ==
    IF u.connection = "close"
    THEN LET shouldReconnect == u.statusCode # LoggedOut
             recs == [st.records EXCEPT ![r].status = "disconnected"]
             msg == Msg("session_update", recs[r].id, recs[r].status,
                        UndefinedCode, NoSessionUser, Undefined, << >>)
             st1 == Emit([st EXCEPT !.records = recs], msg)
         IN IF shouldReconnect THEN [st1 EXCEPT !.timers = Append(@, r)] ELSE st1
    ELSE st

\* io.emit('session_update', {sessionId, status, user, pairingCode}) of the
\* open branch, then the rest of the handler
OpenEmitPart(st, r, u) ==
    LET s == st.records[r]
        msg == Msg("session_update", s.id, s.status, s.pairingCode, s.user,
                   Undefined, << >>)
    IN ClosePart(Emit(st, msg), r, u)

\* if (connection === 'open') { ... } up to `await sock.updateProfilePicture`
OpenPart(st, r, u) ==
    IF u.connection = "open"
    THEN LET recs == [st.records EXCEPT
                         ![r].status = "connected",
                         ![r].user = IF u.user.present THEN SessionUser(u.user) ELSE @]
         IN IF u.user.present /\ u.user.id # << >>
            THEN [st EXCEPT !.records = recs,
                            !.handlers = Append(@, [rec |-> r, u |-> u, pc |-> "profilePic"])]
            ELSE OpenEmitPart([st EXCEPT !.records = recs], r, u)
    ELSE ClosePart(st, r, u)

\* a wrong qr branch: the challenge marks the session connected
QrPart_Connects(st, r, u) ==
    IF u.qr # Null
    THEN [st EXCEPT !.records = [@ EXCEPT ![r].qr = u.qr, ![r].status = "connected"],
                    !.handlers = Append(@, [rec |-> r, u |-> u, pc |-> "qrImage"])]
    ELSE OpenPart(st, r, u)

\* if (qr) { ... } up to `await qrcode.toDataURL(qr)`
QrPart(st, r, u) ==
    IF u.qr # Null
    THEN [st EXCEPT !.records = [@ EXCEPT ![r].qr = u.qr, ![r].status = "qr_ready"],
                    !.handlers = Append(@, [rec |-> r, u |-> u, pc |-> "qrImage"])]
    ELSE OpenPart(st, r, u)

\* the rest of the qr branch once qrcode.toDataURL has settled, then the rest
\* of the handler
QrResumePart(st, r, u, ok) ==
    IF ok
    THEN LET qrImage == toDataURL(u.qr)
             recs == [st.records EXCEPT ![r].qrImage = qrImage]
             msg == Msg("qr_update", recs[r].id, recs[r].status,
                        recs[r].pairingCode, NoSessionUser, qrImage, << >>)
         IN OpenPart(Emit([st EXCEPT !.records = recs], msg), r, u)
    ELSE OpenPart(st, r, u)

\* the store a handler step starts from: nothing emitted yet
Store ==
    [ records |-> records, inbox |-> inbox, emitted |-> << >>, timers |-> timers,
      handlers |-> handlers ]

SetStore(st) ==
    /\ records' = st.records
    /\ inbox' = st.inbox
    /\ emitted' = st.emitted
    /\ timers' = st.timers
    /\ handlers' = st.handlers

RemoveAt(seq, i) == SubSeq(seq, 1, i - 1) \o SubSeq(seq, i + 1, Len(seq))

\* The socket of record r emits connection.update: the handler registered by
\* the call that created r runs up to its first await or to its end.
ConnectionUpdate(r, u) ==
    /\ records[r].socket # 0
    /\ nEvents < MaxEvents
    /\ nEvents' = nEvents + 1
    /\ SetStore(QrPart(Store, r, u))
    /\ NoHttp
    /\ UNCHANGED << single, started, now, calls, activeSessions, pairingCodes, connected,
                    pendingSends >>

\* qrcode.toDataURL settles for the suspended handler h
ResumeQrImage(h, ok) ==
    /\ handlers[h].pc = "qrImage"
    /\ SetStore(QrResumePart([Store EXCEPT !.handlers = RemoveAt(@, h)],
                             handlers[h].rec, handlers[h].u, ok))
    /\ NoHttp
    /\ UNCHANGED << single, started, now, calls, activeSessions, pairingCodes, connected,
                    pendingSends, nEvents >>

\* sock.updateProfilePicture settles for the suspended handler h; a rejection
\* is caught and logged, so both outcomes continue alike
ResumeProfilePic(h) ==
    /\ handlers[h].pc = "profilePic"
    /\ SetStore(OpenEmitPart([Store EXCEPT !.handlers = RemoveAt(@, h)],
                             handlers[h].rec, handlers[h].u))
    /\ NoHttp
    /\ UNCHANGED << single, started, now, calls, activeSessions, pairingCodes, connected,
                    pendingSends, nEvents >>

\* The oldest 5000 ms timer fires (timers of equal delay fire in the order
\* they were set): createWhatsAppConnection(sessionData.id)
TimerFire ==
    /\ timers # << >>
    /\ Len(calls) < MaxCalls
    /\ calls' = StartCall(calls, records[Head(timers)].id)
    /\ timers' = Tail(timers)
    /\ Quiet
    /\ UNCHANGED << single, started, now, records, activeSessions, pairingCodes, handlers,
                    connected, inbox, pendingSends, nEvents >>

(* ------------------------------ HTTP ----------------------------------- *)
\* phone numbers a caller sends; the empty one is the absent phoneNumber
PhoneInputs ==
    { << >>,
      << "+","2","5","4","7","2","3","2","7","8","5","2","6" >>,
      << "0","7","2","3","2","7","8","5","2","6" >> }

\* pairing codes a caller sends; the empty one is the absent pairingCode
CodeInputs ==
    { << >>, << "Z","Z","Z","Z","Z","Z","Z","Z" >> }
    \cup { generatePairingCode(rnd) : rnd \in RandStreams }

\* cleanedNumber.startsWith('254') && cleanedNumber.length === 12
PhoneOk(cleanedNumber) ==
    /\ Len(cleanedNumber) = 12
    /\ SubSeq(cleanedNumber, 1, 3) = << "2","5","4" >>

\* a property read from the pending promise createWhatsAppConnection returns
PromiseProperty == Undefined

\* POST /api/create-session: createWhatsAppConnection is called and not
\* awaited; the response is built from the promise it returned.
CreateSession(sid) ==
    /\ started
    /\ Len(calls) < MaxCalls
    /\ LET sessionId == IF Falsy(sid) THEN GenId(now) ELSE sid
       IN /\ calls' = StartCall(calls, sessionId)
          /\ resp' = Response("create", sessionId, << >>, << >>, 200, "",
                              PromiseProperty, UndefinedCode, Undefined)
    /\ sent' = NoSend
    /\ emitted' = << >>
    /\ UNCHANGED << single, started, now, records, activeSessions, pairingCodes, handlers,
                    timers, connected, inbox, pendingSends, nEvents >>

\* a wrong status test: every session that is not disconnected passes
IsConnected_NotDisconnected(sessionData) == sessionData.status # "disconnected"

\* the test of `if (sessionData.status !== 'connected')`
IsConnected(sessionData) == sessionData.status = "connected"

\* `${cleanedNumber}@s.whatsapp.net`
Jid(cleanedNumber) == cleanedNumber \o << "@s.whatsapp.net" >>

\* POST /api/pair-with-code, up to the response or to `await sendMessage`
PairWithCode(pairingCode, phoneNumber) ==
    /\ started
    /\ LET cleanedNumber == OnlyDigits(phoneNumber)
           ref == MapGet(pairingCodes, pairingCode)
           Reply(http, error) ==
               /\ resp' = Response("pair", "", pairingCode, phoneNumber, http, error,
                                   Undefined, UndefinedCode, Undefined)
               /\ sent' = NoSend
               /\ UNCHANGED pendingSends
       IN IF pairingCode = << >> \/ phoneNumber = << >>
          THEN Reply(400, "Pairing code and phone number are required")
          ELSE IF ~ PhoneOk(cleanedNumber)
          THEN Reply(400, "Phone number must be in format: +254723278526")
          ELSE IF ref = 0
          THEN Reply(404, "Invalid pairing code")
          ELSE IF ~ IsConnected(records[ref])
          THEN Reply(400, "Session not connected yet")
          ELSE IF records[ref].socket = 0
          THEN Reply(500, "TypeError")
          ELSE /\ Len(pendingSends) < MaxPending
               /\ sent' = [socket |-> records[ref].socket,
                           jid |-> Jid(cleanedNumber),
                           sessionId |-> records[ref].id,
                           code |-> pairingCode]
               /\ pendingSends' = Append(pendingSends, ref)
               /\ resp' = Response("pair", "", pairingCode, phoneNumber, 0, "",
                                   Undefined, UndefinedCode, Undefined)
    /\ emitted' = << >>
    /\ UNCHANGED << single, started, now, calls, records, activeSessions, pairingCodes,
                    handlers, timers, connected, inbox, nEvents >>

\* a wrong settlement: a rejected send marks the session disconnected
SendResolve_Disconnects(p, ok) ==
    /\ resp' = IF ok
               THEN Response("pair", "", << >>, << >>, 200, "",
                             records[pendingSends[p]].id, UndefinedCode, Undefined)
               ELSE Response("pair", "", << >>, << >>, 500, "send failed",
                             Undefined, UndefinedCode, Undefined)
    /\ records' = IF ok THEN records
                  ELSE [records EXCEPT ![pendingSends[p]].status = "disconnected"]
    /\ pendingSends' = RemoveAt(pendingSends, p)
    /\ sent' = NoSend
    /\ emitted' = << >>
    /\ UNCHANGED << single, started, now, calls, activeSessions, pairingCodes,
                    handlers, timers, connected, inbox, nEvents >>

\* sendMessage settles for the suspended request p
SendResolve(p, ok) ==
    /\ resp' = IF ok
               THEN Response("pair", "", << >>, << >>, 200, "",
                             records[pendingSends[p]].id, UndefinedCode, Undefined)
               ELSE Response("pair", "", << >>, << >>, 500, "send failed",
                             Undefined, UndefinedCode, Undefined)
    /\ pendingSends' = RemoveAt(pendingSends, p)
    /\ sent' = NoSend
    /\ emitted' = << >>
    /\ UNCHANGED << single, started, now, calls, records, activeSessions, pairingCodes,
                    handlers, timers, connected, inbox, nEvents >>

\* GET /api/pairing-code/:code
GetPairingCode(code) ==
    /\ started
    /\ LET ref == MapGet(pairingCodes, code)
       IN resp' = IF ref = 0
                  THEN Response("lookup", "", code, << >>, 404, "Invalid pairing code",
                                Undefined, UndefinedCode, Undefined)
                  ELSE Response("lookup", "", code, << >>, 200, "", records[ref].id,
                                UndefinedCode, records[ref].status)
    /\ sent' = NoSend
    /\ emitted' = << >>
    /\ UNCHANGED << single, started, now, calls, records, activeSessions, pairingCodes,
                    handlers, timers, connected, inbox, pendingSends, nEvents >>

\* session ids a caller puts in the path of GET /api/qr/:sessionId
QrIds == { "default", "IAN-TECH-0", "A" }

\* qrcode.toBuffer(qr)
toBuffer(text) == "png:" \o text

\* activeSessions.get(sessionId) || activeSessions.get('default')
QrLookup(m, sessionId) ==
    IF MapGet(m, sessionId) # 0 THEN MapGet(m, sessionId) ELSE MapGet(m, "default")

\* GET /api/qr/:sessionId.  The continuation after `await qrcode.toBuffer`
\* reads nothing but the buffer, so the request is served in one step; a
\* rejected toBuffer is answered by the catch block.
GetQr(sessionId, ok) ==
    /\ started
    /\ LET ref == QrLookup(activeSessions, sessionId)
           Reply(http, error) ==
               Response("qr", sessionId, << >>, << >>, http, error,
                        Undefined, UndefinedCode, Undefined)
       IN resp' = IF ref = 0 \/ records[ref].qr = Null
                  THEN Reply(404, "QR code not available")
                  ELSE IF ok
                  THEN [Reply(200, "") EXCEPT !.image = toBuffer(records[ref].qr)]
                  ELSE Reply(500, "toBuffer failed")
    /\ sent' = NoSend
    /\ emitted' = << >>
    /\ UNCHANGED << single, started, now, calls, records, activeSessions, pairingCodes,
                    handlers, timers, connected, inbox, pendingSends, nEvents >>

(* ----------------------------- socket.io ------------------------------- *)
\* io.on('connection'): the client joins and is sent the init snapshot in the
\* same turn of the event loop
Subscribe(o) ==
    /\ started
    /\ o \notin connected
    /\ connected' = connected \cup {o}
    /\ LET sessions == SessionSummaries(records, activeSessions)
           msg == Msg("init", Undefined, Undefined, UndefinedCode, NoSessionUser,
                      Undefined, sessions)
       IN /\ inbox' = [inbox EXCEPT ![o] = Append(@, msg.type)]
          /\ emitted' = << [to |-> {o}, msg |-> msg] >>
    /\ NoHttp
    /\ UNCHANGED << single, started, now, calls, records, activeSessions, pairingCodes,
                    handlers, timers, pendingSends, nEvents >>

\* socket.on('disconnect'): the client leaves; what it received is dropped
Unsubscribe(o) ==
    /\ o \in connected
    /\ connected' = connected \ {o}
    /\ inbox' = [inbox EXCEPT ![o] = << >>]
    /\ Quiet
    /\ UNCHANGED << single, started, now, calls, records, activeSessions, pairingCodes,
                    handlers, timers, pendingSends, nEvents >>

(* --------------------------- the server -------------------------------- *)
\* server.listen callback: createWhatsAppConnection()
Startup ==
    /\ ~ started
    /\ started' = TRUE
    /\ calls' = StartCall(calls, "")
    /\ Quiet
    /\ UNCHANGED << single, now, records, activeSessions, pairingCodes, handlers, timers,
                    connected, inbox, pendingSends, nEvents >>

\* the clock of Date.now() advances
Tick ==
    /\ now < MaxClock
    /\ now' = now + 1
    /\ Quiet
    /\ UNCHANGED << single, started, calls, records, activeSessions, pairingCodes, handlers,
                    timers, connected, inbox, pendingSends, nEvents >>

Init ==
    /\ started = FALSE
    /\ now = 0
    /\ calls = << >>
    /\ records = << >>
    /\ activeSessions = << >>
    /\ pairingCodes = << >>
    /\ handlers = << >>
    /\ timers = << >>
    /\ nEvents = 0
    /\ connected = {}
    /\ inbox = [o \in Observers |-> << >>]
    /\ emitted = << >>
    /\ pendingSends = << >>
    /\ resp = NoResp
    /\ sent = NoSend
    /\ listening = FALSE
    /\ sock = 0
    /\ qr = ""
    /\ status = "disconnected"
    /\ isConnecting = FALSE
    /\ handles = << >>
    /\ connects = << >>
    /\ retries = 0
    /\ restarts = 0
    /\ nRestarts = 0
    /\ nBotEvents = 0
    /\ sendResp = [http |-> 0, error |-> ""]

\* steps of the sessions themselves
Lifecycle ==
    \/ Startup
    \/ \E c \in 1..Len(calls), ok \in BOOLEAN, rnd \in RandStreams : LoadAuth(c, ok, rnd)
    \/ \E c \in 1..Len(calls), ok \in BOOLEAN : FetchVersion(c, ok)
    \/ \E r \in 1..Len(records), u \in Updates : ConnectionUpdate(r, u)
    \/ \E h \in 1..Len(handlers), ok \in BOOLEAN : ResumeQrImage(h, ok)
    \/ \E h \in 1..Len(handlers) : ResumeProfilePic(h)
    \/ TimerFire

\* the sessions and the creation requests
Next ==
    \/ Lifecycle
    \/ Tick
    \/ \E sid \in SuppliedIds : CreateSession(sid)

Spec == Init /\ [][Next]_vars

\* the sessions and the requests by pairing code
NextPair ==
    \/ Lifecycle
    \/ \E code \in CodeInputs, phone \in PhoneInputs : PairWithCode(code, phone)
    \/ \E p \in 1..Len(pendingSends), ok \in BOOLEAN : SendResolve(p, ok)
    \/ \E code \in CodeInputs : GetPairingCode(code)

SpecPair == Init /\ [][NextPair]_vars

\* the sessions and the requests for a QR image
NextQr ==
    \/ Lifecycle
    \/ \E sessionId \in QrIds, ok \in BOOLEAN : GetQr(sessionId, ok)

SpecQr == Init /\ [][NextQr]_vars

\* the sessions and the socket.io clients
NextObs ==
    \/ Lifecycle
    \/ \E o \in Observers : Subscribe(o)
    \/ \E o \in Observers : Unsubscribe(o)

SpecObs == Init /\ [][NextObs]_vars

(* -------------------- the single-connection server --------------------- *)
\* The globals the connection.update handler works on, with the pending
\* reconnect timers: g = [qr, status, isConnecting, retries].
Globals ==
    [ qr |-> qr, status |-> status, isConnecting |-> isConnecting,
      retries |-> retries ]

SetGlobals(g) ==
    /\ qr' = g.qr
    /\ status' = g.status
    /\ isConnecting' = g.isConnecting
    /\ retries' = g.retries

\* if (qrCode) { ... }
SingleQrPart(g, u) ==
    IF u.qr # Null
    THEN [g EXCEPT !.qr = u.qr, !.status = "qr_ready"]
    ELSE g

\* if (connection === 'open') { ... }
SingleOpenPart(g, u) ==
    IF u.connection = "open"
    THEN [g EXCEPT !.status = "connected", !.isConnecting = FALSE]
    ELSE g

\* if (connection === 'close') { ... }
SingleClosePart(g, u) ==
    IF u.connection = "close"
    THEN LET shouldReconnect == u.statusCode # LoggedOut
             g1 == [g EXCEPT !.status = "disconnected", !.isConnecting = FALSE]
         IN IF shouldReconnect THEN [g1 EXCEPT !.retries = @ + 1] ELSE g1
    ELSE g

\* the connection.update handler: it has no await and runs to its end
SingleHandler(g, u) == SingleClosePart(SingleOpenPart(SingleQrPart(g, u), u), u)

\* connectToWhatsApp() up to `await useMultiFileAuthState`: the isConnecting
\* guard, then isConnecting = true and status = 'connecting'
connectToWhatsApp(g, cs) ==
    IF g.isConnecting
    THEN /\ SetGlobals(g)
         /\ connects' = cs
    ELSE /\ SetGlobals([g EXCEPT !.isConnecting = TRUE, !.status = "connecting"])
         /\ connects' = Append(cs, "loadAuth")

\* catch (error) { ... }: the call c ends with a 10000 ms retry timer set
Catch(c) ==
    /\ SetGlobals([Globals EXCEPT !.status = "error", !.isConnecting = FALSE,
                                  !.retries = @ + 1])
    /\ connects' = RemoveAt(connects, c)
    /\ UNCHANGED << sock, handles >>

\* useMultiFileAuthState settles for the call c
SingleLoadAuth(c, ok) ==
    /\ connects[c] = "loadAuth"
    /\ IF ok
       THEN /\ connects' = [connects EXCEPT ![c] = "fetchVersion"]
            /\ UNCHANGED << sock, qr, status, isConnecting, handles, retries >>
       ELSE Catch(c)
    /\ UNCHANGED << multi, listening, restarts, nRestarts, nBotEvents, sendResp >>

\* fetchLatestBaileysVersion settles for the call c.  Fulfilled: sock =
\* makeWASocket(...), the handlers are registered and the call ends.
SingleFetchVersion(c, ok) ==
    /\ connects[c] = "fetchVersion"
    /\ IF ok
       THEN /\ Len(handles) < MaxHandles
            /\ handles' = Append(handles, "live")
            /\ sock' = Len(handles) + 1
            /\ connects' = RemoveAt(connects, c)
            /\ UNCHANGED << qr, status, isConnecting, retries >>
       ELSE Catch(c)
    /\ UNCHANGED << multi, listening, restarts, nRestarts, nBotEvents, sendResp >>

\* The socket h emits connection.update.  A live socket emits any update; a
\* socket that sock.end() has ended reports its close, without a loggedOut
\* reason, at most once.  A close event leaves the socket closed.
SingleConnectionUpdate(h, u) ==
    /\ nBotEvents < MaxBotEvents
    /\ \/ handles[h] = "live"
       \/ handles[h] = "ended" /\ u.connection = "close" /\ u.statusCode = 0
    /\ nBotEvents' = nBotEvents + 1
    /\ SetGlobals(SingleHandler(Globals, u))
    /\ handles' = IF u.connection = "close"
                  THEN [handles EXCEPT ![h] = "closed"]
                  ELSE handles
    /\ UNCHANGED << multi, listening, sock, connects, restarts, nRestarts, sendResp >>

\* a 5000 ms or 10000 ms timer fires: connectToWhatsApp()
RetryFire ==
    /\ retries > 0
    /\ connectToWhatsApp([Globals EXCEPT !.retries = @ - 1], connects)
    /\ UNCHANGED << multi, listening, sock, handles, restarts, nRestarts, nBotEvents, sendResp >>

\* the close that sock.end() reports: no loggedOut reason
EndClose == [qr |-> Null, connection |-> "close", statusCode |-> 0, user |-> NoUser]

\* POST /api/restart: if (sock) { sock.end(); sock = null; }, then the
\* 2000 ms timer is set.  Whether sock.end() runs the connection.update
\* handler before it returns (sync) or the socket reports its close later is
\* the library's choice; both are modelled.
Restart(sync) ==
    /\ listening
    /\ nRestarts < MaxRestarts
    /\ nRestarts' = nRestarts + 1
    /\ IF sock # 0 /\ handles[sock] = "live"
       THEN IF sync
            THEN /\ handles' = [handles EXCEPT ![sock] = "closed"]
                 /\ SetGlobals(SingleHandler(Globals, EndClose))
            ELSE /\ handles' = [handles EXCEPT ![sock] = "ended"]
                 /\ UNCHANGED << qr, status, isConnecting, retries >>
       ELSE UNCHANGED << handles, qr, status, isConnecting, retries >>
    /\ sock' = 0
    /\ restarts' = restarts + 1
    /\ UNCHANGED << multi, listening, connects, nBotEvents, sendResp >>

\* POST /api/send.  The continuation after `await sock.sendMessage` reads
\* nothing but the outcome, so the request is served in one step; reading
\* sendMessage of a null sock throws a TypeError that the catch answers.
Send(valid, ok) ==
    /\ listening
    /\ sendResp' =
           IF ~ valid
           THEN [http |-> 400, error |-> "Number and message are required"]
           ELSE IF status # "connected"
           THEN [http |-> 400, error |-> "Bot is not connected"]
           ELSE IF sock = 0
           THEN [http |-> 500, error |-> "TypeError"]
           ELSE IF ok
           THEN [http |-> 200, error |-> ""]
           ELSE [http |-> 500, error |-> "send failed"]
    /\ UNCHANGED << multi, listening, sock, qr, status, isConnecting, handles,
                    connects, retries, restarts, nRestarts, nBotEvents >>

\* the 2000 ms timer of /api/restart fires: connectToWhatsApp(), res.json
RestartFire ==
    /\ restarts > 0
    /\ restarts' = restarts - 1
    /\ connectToWhatsApp(Globals, connects)
    /\ UNCHANGED << multi, listening, sock, handles, nRestarts, nBotEvents, sendResp >>

\* server.listen callback: connectToWhatsApp()
SingleStartup ==
    /\ ~ listening
    /\ listening' = TRUE
    /\ connectToWhatsApp(Globals, connects)
    /\ UNCHANGED << multi, sock, handles, restarts, nRestarts, nBotEvents, sendResp >>

NextSingle ==
    \/ SingleStartup
    \/ \E c \in 1..Len(connects), ok \in BOOLEAN : SingleLoadAuth(c, ok)
    \/ \E c \in 1..Len(connects), ok \in BOOLEAN : SingleFetchVersion(c, ok)
    \/ \E h \in 1..Len(handles), u \in Updates : SingleConnectionUpdate(h, u)
    \/ RetryFire
    \/ \E sync \in BOOLEAN : Restart(sync)
    \/ RestartFire
    \/ \E valid \in BOOLEAN, ok \in BOOLEAN : Send(valid, ok)

SpecSingle == Init /\ [][NextSingle]_vars

(* ------------------------------ claims --------------------------------- *)
\* a close event whose reason is not loggedOut / is loggedOut
TransientClose(u) == u.connection = "close" /\ u.statusCode # LoggedOut

LoggedOutClose(u) == u.connection = "close" /\ u.statusCode = LoggedOut

\* the number of pending reconnect timers of the session with this id
TimersFor(tm, recs, id) == Cardinality({ i \in 1..Len(tm) : recs[tm[i]].id = id })

\* the record the registry holds under this key / code, 0 if none
Registered(m, k) ==
    IF \E i \in 1..Len(m) : m[i].key = k
    THEN m[CHOOSE i \in 1..Len(m) : m[i].key = k].val
    ELSE 0

\* C1: after every close event whose reason is not loggedOut, exactly one
\* reconnection timer is outstanding for that session, however many close
\* events arrived before the first timer fired.
C1_OneTimerPerSession ==
    [][\A r \in 1..Len(records), u \in Updates :
          (TransientClose(u) /\ ConnectionUpdate(r, u))
              => TimersFor(timers', records', records[r].id) = 1]_vars

\* C2: no two records held in activeSessions have the same id.
C2_UniqueIds ==
    \A i, j \in 1..Len(activeSessions) :
        i # j => records[activeSessions[i].val].id # records[activeSessions[j].val].id

\* C3: no two session records share a pairing code, and every record of the
\* registry is the one its own pairing code leads to (no entry of
\* pairingCodes was overwritten by a colliding code).
C3_UniqueCodes ==
    /\ \A i, j \in 1..Len(activeSessions) :
           i # j => records[activeSessions[i].val].pairingCode
                        # records[activeSessions[j].val].pairingCode
    /\ \A r \in 1..Len(records) :
           Registered(pairingCodes, records[r].pairingCode) = r

\* C4: the stored QR challenge of a record is non-null if and only if the
\* record's status is QR_READY.
C4_QrIffQrReady ==
    \A r \in 1..Len(records) :
        (records[r].qr # Null) <=> (records[r].status = "qr_ready")

\* C5: a close event whose reason is loggedOut leaves the session TERMINATED
\* and removes its pairing code from the registry.
C5_LoggedOutTerminates ==
    [][\A r \in 1..Len(records), u \in Updates :
          (LoggedOutClose(u) /\ ConnectionUpdate(r, u))
              => /\ records'[r].status = "terminated"
                 /\ Registered(pairingCodes', records[r].pairingCode) = 0]_vars

\* C6: a pair-with-code request with a well-formed phone number sends the
\* confirmation exactly when its code is known and the session found under it
\* is connected; a known code of a session in any other status is answered
\* with the not-connected error (400) and an unknown code with 404, both
\* without a send; and nothing but such a request sends.
C6_VerifyPairing ==
    /\ (resp.op = "pair" /\ resp.code # << >> /\ resp.phone # << >>
            /\ PhoneOk(OnlyDigits(resp.phone)))
         => LET ref == Registered(pairingCodes, resp.code)
            IN IF ref = 0
               THEN resp.http = 404 /\ sent = NoSend
               ELSE IF records[ref].status # "connected"
               THEN /\ resp.http = 400
                    /\ resp.error = "Session not connected yet"
                    /\ sent = NoSend
               ELSE /\ sent.socket = records[ref].socket
                    /\ sent.socket # 0
                    /\ sent.jid = OnlyDigits(resp.phone) \o << "@s.whatsapp.net" >>
    /\ sent # NoSend
         => /\ resp.op = "pair"
            /\ PhoneOk(OnlyDigits(resp.phone))
            /\ Registered(pairingCodes, resp.code) # 0
            /\ records[Registered(pairingCodes, resp.code)].status = "connected"

\* C6 witness: a confirmation has just been sent through a connected session
C6_Witness ==
    /\ sent # NoSend
    /\ resp.op = "pair"
    /\ records[Registered(pairingCodes, resp.code)].status = "connected"

\* C7: the first thing a subscribed client receives is the init snapshot, and
\* the snapshot holds exactly one summary per entry of the registry at the
\* instant of subscription, in the registry's order.
C7_InitSnapshotFirst ==
    /\ \A o \in Observers :
           IF o \in connected
           THEN inbox[o] # << >> /\ inbox[o][1] = "init"
           ELSE inbox[o] = << >>
    /\ \A k \in 1..Len(emitted) :
           emitted[k].msg.type = "init"
             => LET sessions == emitted[k].msg.sessions
                IN /\ Cardinality(emitted[k].to) = 1
                   /\ Len(sessions) = Len(activeSessions)
                   /\ \A i \in 1..Len(sessions) :
                          LET s == records[activeSessions[i].val]
                          IN /\ sessions[i].id = s.id
                             /\ sessions[i].pairingCode = s.pairingCode
                             /\ sessions[i].status = s.status
                             /\ sessions[i].qrAvailable = (s.qr # Null)

\* C7 witness: a client has just subscribed and received a snapshot of a
\* registry that holds a session with a live socket
C7_Witness ==
    /\ emitted # << >>
    /\ emitted[1].msg.type = "init"
    /\ Len(emitted[1].msg.sessions) >= 1
    /\ \E i \in 1..Len(activeSessions) : records[activeSessions[i].val].socket # 0

\* C8: a creation request with a supplied id that is already registered, or
\* that another creation request is still registering, is answered with
\* AlreadyExists (409) and starts no creation, so that the existing record,
\* its pairing code and its handle stay as they are.
C8_AlreadyExists ==
    [][\A sid \in SuppliedIds :
          (/\ ~ Falsy(sid)
           /\ CreateSession(sid)
           /\ \/ Registered(activeSessions, sid) # 0
              \/ \E c \in 1..Len(calls) : calls[c].arg = sid /\ calls[c].pc = "loadAuth")
              => /\ resp'.http = 409
                 /\ calls' = calls]_vars

\* C9: when a create-session request is answered, the registry holds a
\* record for the requested id with status INITIALIZING, and the id and the
\* pairing code of the response are those of that record, the code being 8
\* characters from [A-Z0-9].
C9_CreateAnswer ==
    resp.op = "create"
      => LET ref == Registered(activeSessions, resp.sessionId)
         IN /\ ref # 0
            /\ records[ref].status = "initializing"
            /\ resp.rSessionId = records[ref].id
            /\ resp.rPairingCode = records[ref].pairingCode
            /\ Len(resp.rPairingCode) = 8
            /\ \A i \in 1..Len(resp.rPairingCode) :
                   resp.rPairingCode[i] \in { Chars[k] : k \in 1..Len(Chars) }

\* C10: a close event whose reason is not loggedOut sets the status to
\* RECONNECTING, and a record registered later under the id of a session
\* already in the registry replaces that session's entry instead of being
\* added beside it.
C10_ReconnectReplaces ==
    [][/\ \A r \in 1..Len(records), u \in Updates :
              (TransientClose(u) /\ ConnectionUpdate(r, u))
                  => records'[r].status = "reconnecting"
       /\ (Len(records') > Len(records)
             /\ \E i \in 1..Len(activeSessions) :
                    records[activeSessions[i].val].id = records'[Len(records')].id)
            => /\ Len(activeSessions') = Len(activeSessions)
               /\ records'[Len(records')].status = "initializing"
               /\ Registered(activeSessions', records'[Len(records')].id) = Len(records')]_vars

\* C11: a request for the QR challenge of session id X is answered with 404
\* whenever the registry holds no session with id X or that session has no
\* stored challenge; an image that is returned is the challenge of session X,
\* never that of another session.
C11_QrOfOwnSession ==
    resp.op = "qr"
      => LET owners == { i \in 1..Len(activeSessions) :
                           /\ records[activeSessions[i].val].id = resp.sessionId
                           /\ records[activeSessions[i].val].qr # Null }
         IN IF owners = {}
            THEN resp.http = 404
            ELSE resp.http = 200
                   => \E i \in owners :
                          resp.image = toBuffer(records[activeSessions[i].val].qr)

\* C12: a qr event delivered while the status of the session is CONNECTED is
\* ignored: the status stays CONNECTED and the stored challenge is not set.
C12_QrIgnoredWhenConnected ==
    [][\A r \in 1..Len(records), u \in Updates :
          (u.qr # Null /\ records[r].status = "connected" /\ ConnectionUpdate(r, u))
              => /\ records'[r].status = "connected"
                 /\ records'[r].qr = records[r].qr]_vars

\* C13 as stated: no record changes status directly from INITIALIZING to
\* CONNECTED.
C13_NoDirectConnect ==
    [][\A r \in 1..Len(records) :
          ~ (records[r].status = "initializing" /\ records'[r].status = "connected")]_vars

\* C13 amended: the status of a record becomes CONNECTED only in the step
\* that handles an open event of the record's own socket, whatever the status
\* before it, INITIALIZING included.
C13_ConnectedByOpenOnly ==
    [][\A r \in 1..Len(records) :
          (records[r].status # "connected" /\ records'[r].status = "connected")
              => \E u \in Updates : u.connection = "open" /\ ConnectionUpdate(r, u)]_vars

\* C13 witness: a record is connected and was never issued a challenge
C13_Witness ==
    \E r \in 1..Len(records) :
        /\ records[r].status = "connected"
        /\ records[r].qr = Null
        /\ records[r].socket # 0

\* C14: the two maps agree: every entry of pairingCodes leads to a record
\* that activeSessions holds, under the code that record carries, and every
\* record of activeSessions is the one its own pairing code leads to.
C14_MapsAgree ==
    /\ \A i \in 1..Len(pairingCodes) :
           /\ \E j \in 1..Len(activeSessions) :
                  activeSessions[j].val = pairingCodes[i].val
           /\ records[pairingCodes[i].val].pairingCode = pairingCodes[i].key
    /\ \A j \in 1..Len(activeSessions) :
           Registered(pairingCodes, records[activeSessions[j].val].pairingCode)
               = activeSessions[j].val

\* C15: the events of one session are handled one after another: no event
\* of a session is handled while the handler of an earlier event of that
\* session is suspended, and a qr_update is published with the status
\* QR_READY only.
C15_SerializedEvents ==
    [][/\ \A r \in 1..Len(records), u \in Updates :
              ConnectionUpdate(r, u)
                  => ~ \E h \in 1..Len(handlers) : handlers[h].rec = r
       /\ \A k \in 1..Len(emitted') :
              emitted'[k].msg.type = "qr_update"
                  => emitted'[k].msg.status = "qr_ready"]_vars

\* C16: every status transition of a session, the INITIALIZING of a new
\* record included, is published to all connected clients with the id, the
\* new status and the pairing code of the session, in the step itself or by
\* the handler that the step leaves suspended.
C16_TransitionsPublished ==
    [][\A r \in 1..Len(records') :
          (/\ connected # {}
           /\ \/ r > Len(records)
              \/ records'[r].status # records[r].status)
              => \/ \E k \in 1..Len(emitted') :
                        /\ emitted'[k].to = connected
                        /\ emitted'[k].msg.sessionId = records'[r].id
                        /\ emitted'[k].msg.status = records'[r].status
                        /\ emitted'[k].msg.pairingCode = records'[r].pairingCode
                 \/ /\ Len(handlers') > Len(handlers)
                    /\ handlers'[Len(handlers')].rec = r]_vars

C18_PairingChangesNothing ==
    [][resp'.op = "pair"
          => UNCHANGED << records, activeSessions, pairingCodes, timers, calls >>]_vars

\* C18 witness: a send was rejected and reported to the caller
C18_Witness ==
    /\ resp.op = "pair"
    /\ resp.http = 500
    /\ resp.error = "send failed"
    /\ \E r \in 1..Len(records) : records[r].status = "connected"

\* C19: a creation that fails while loading the credentials or opening the
\* socket is followed by a scheduled retry: the step in which the call fails
\* sets a timer.
C19_FailedCreationRetried ==
    [][\A c \in 1..Len(calls) :
          (calls[c].pc # "rejected" /\ calls'[c].pc = "rejected")
              => Len(timers') = Len(timers) + 1]_vars

\* the sockets of the single-connection server that are live
LiveHandles == { h \in 1..Len(handles) : handles[h] = "live" }

\* C20: in the single-connection server at most one socket made by
\* connectToWhatsApp is live (made and neither closed nor ended) at any time.
C20_OneLiveHandle == Cardinality(LiveHandles) <= 1

\* C21: in the single-connection server, whenever status is 'connected' sock
\* is not null, and a /api/send request that passed the status check had a
\* socket to send through (it is not answered with the TypeError of a null
\* sock).
C21_ConnectedHasSock ==
    /\ status = "connected" => sock # 0
    /\ sendResp.error # "TypeError"

====
